---- MODULE Spec2Model ----
(***************************************************************************)
(* Model of the LOOK.AI analysis backend:                                  *)
(*   backend/app.py                      analyze_token (POST /api/v1/analyze)*)
(*   backend/models/price_prediction.py  PricePredictionModel              *)
(*                                                                         *)
(* Floating point values are fixed-point integers; a float is the record   *)
(* [nan |-> BOOLEAN, v |-> Int].  Logarithms are in thousandths, standard  *)
(* deviations and means carry an extra factor of 100.                      *)
(***************************************************************************)
EXTENDS Integers, Sequences, FiniteSets, TLC

VARIABLES chain_type, pc, pending, calls, returns, fetched, token_data,
          lstm_out, features, market_performance, risk_assessment,
          recommendations, timestamp, now, exc, outcome,
          price_trends, volatility_index

vars == <<chain_type, pc, pending, calls, returns, fetched, token_data,
          lstm_out, features, market_performance, risk_assessment,
          recommendations, timestamp, now, exc, outcome,
          price_trends, volatility_index>>

\* ---------------------------------------------------------------- bounds
\* longest price_history enumerated exhaustively
MaxLen == 2
\* largest price in an exhaustively enumerated price_history
MaxPrice == 3
\* the scalar a freshly (randomly) initialised LSTM may emit is in -MaxOut..MaxOut
MaxOut == 1

\* ------------------------------------------------------- program constants
\* np.zeros(10) in _normalize
WindowSize == 10
\* LSTM(input_size=10, ...)
InputSize == 10
\* price_history[-5:] in _analyze_trends
TrendLookback == 5
\* np.sqrt(365) in _calculate_volatility, in hundredths
Sqrt365 == 1911
\* the 1e-8 of _normalize, as the smallest positive fixed-point unit
Epsilon == 1

\* ------------------------------------------------------------------ floats
Num(x) == [nan |-> FALSE, v |-> x]

NaN == [nan |-> TRUE, v |-> 0]

RECURSIVE SumSeq(_)
SumSeq(s) == IF s = <<>> THEN 0 ELSE Head(s) + SumSeq(Tail(s))

RECURSIVE ISqrtIter(_, _, _)
ISqrtIter(n, lo, hi) ==
  IF lo >= hi THEN lo
  ELSE LET mid == (lo + hi + 1) \div 2
       IN IF mid * mid <= n THEN ISqrtIter(n, mid, hi)
                            ELSE ISqrtIter(n, lo, mid - 1)

\* floor of the square root
ISqrt(n) == IF n <= 0 THEN 0 ELSE ISqrtIter(n, 0, IF n < 46340 THEN n ELSE 46340)

\* 1000 * ln(p) for the prices the model uses
LnTable == <<0, 693, 1099, 1386, 1609, 1792, 1946, 2079, 2197, 2303,
             2398, 2485, 2565, 2639, 2708, 2773>>

\* np.log of one entry: nan for a negative price, -inf for zero (both end
\* as nan once differenced and averaged, see NpStdOfReturns)
NpLog(p) == IF p <= 0 THEN NaN ELSE Num(LnTable[p])

\* np.diff
NpDiff(s) == IF Len(s) < 2 THEN <<>> ELSE [i \in 1..(Len(s) - 1) |-> s[i + 1] - s[i]]

\* np.mean, in hundredths; the mean of an empty array is nan
NpMean(s) == IF Len(s) = 0 THEN NaN ELSE Num((100 * SumSeq(s)) \div Len(s))

\* n*sum(x^2) - sum(x)^2 = n^2 * population variance
Dispersion(s) == Len(s) * SumSeq([i \in 1..Len(s) |-> s[i] * s[i]]) - SumSeq(s) * SumSeq(s)

\* a plausible slip: the sample standard deviation (ddof=1), undefined for one value
NpStd_Sample(s) ==
  IF Len(s) < 2 THEN NaN
  ELSE Num((100 * ISqrt((Dispersion(s) * Len(s)) \div (Len(s) - 1))) \div Len(s))

\* np.std (population, ddof=0), in hundredths of the input unit
NpStd(s) == IF Len(s) = 0 THEN NaN ELSE Num((100 * ISqrt(Dispersion(s))) \div Len(s))

\* s[-k:]
LastK(s, k) == IF Len(s) <= k THEN s ELSE SubSeq(s, Len(s) - k + 1, Len(s))

\* ------------------------------------------------ python values and errors
PyDict(v) == [type |-> "dict", value |-> v]

PyList(v) == [type |-> "list", value |-> v]

PyNone == [type |-> "NoneType", value |-> <<>>]

NoException == [type |-> "", origin |-> "", status |-> 0]

Raise(type, origin, status) == [type |-> type, origin |-> origin, status |-> status]

\* ------------------------------------------------- PricePredictionModel
\* _normalize: z-scores in hundredths; an empty series becomes np.zeros(10)
Normalize(data) ==
  IF Len(data) = 0 THEN [i \in 1..WindowSize |-> 0]
  ELSE [i \in 1..Len(data) |->
          (10000 * (Len(data) * data[i] - SumSeq(data)))
             \div (Len(data) * (NpStd(data).v + Epsilon))]

\* _extract_features: np.column_stack raises ValueError when the three
\* columns differ in length; otherwise the tensor has shape [1, n, 3]
ExtractFeatures(td) ==
  LET p == Normalize(td.price_history)
      v == Normalize(td.volume_history)
      l == Normalize(td.liquidity_data)
  IN IF Len(p) # Len(v) \/ Len(v) # Len(l)
     THEN [raised |-> TRUE, exc |-> "ValueError", shape |-> <<>>, data |-> <<>>]
     ELSE [raised |-> FALSE, exc |-> "", shape |-> <<1, Len(p), 3>>,
           data |-> [i \in 1..Len(p) |-> <<p[i], v[i], l[i]>>]]

\* LSTM.forward: nn.LSTM(input_size=10) rejects an input whose last
\* dimension is not 10; otherwise the last step is projected to one scalar
Forward(f, out) ==
  IF f.shape[3] # InputSize
  THEN [raised |-> TRUE, exc |-> "RuntimeError", shape |-> <<>>, data |-> <<>>]
  ELSE [raised |-> FALSE, exc |-> "", shape |-> <<1, 1>>, data |-> <<out>>]

\* torch.Tensor.std (unbiased): nan for a tensor with a single element
TensorStd(s) ==
  IF Len(s) < 2 THEN NaN
  ELSE Num((100 * ISqrt((Dispersion(s) * Len(s)) \div (Len(s) - 1))) \div Len(s))

\* torch.sigmoid in thousandths (piecewise-linear between -4 and 4, strictly
\* inside (0, 1000) elsewhere); nan stays nan
Sigmoid(x) ==
  IF x.nan THEN NaN
  ELSE IF x.v >= 400 THEN Num(999)
  ELSE IF x.v <= -400 THEN Num(1)
  ELSE Num(500 + (x.v * 499) \div 400)

\* _calculate_confidence
CalculateConfidence(prediction) == Sigmoid(TensorStd(prediction.data))

\* _analyze_trends: the guard is len(price_history) > 0
AnalyzeTrends(td) ==
  IF Len(td.price_history) > 0
  THEN LET recent_trend == NpMean(NpDiff(LastK(td.price_history, TrendLookback)))
       IN IF ~recent_trend.nan /\ recent_trend.v > 0 THEN <<"Upward Trend">>
          ELSE IF ~recent_trend.nan /\ recent_trend.v < 0 THEN <<"Downward Trend">>
          ELSE <<"Sideways Movement">>
  ELSE <<>>

\* _calculate_volatility, in units of 1e-5; a non-positive price makes
\* np.log emit nan or -inf, which np.diff and np.std turn into nan
CalculateVolatility(td) ==
  IF Len(td.price_history) > 1
  THEN LET logs == [i \in 1..Len(td.price_history) |-> NpLog(td.price_history[i])]
       IN IF \E i \in 1..Len(logs) : logs[i].nan THEN NaN
          ELSE LET sd == NpStd(NpDiff([i \in 1..Len(logs) |-> logs[i].v]))
               IN IF sd.nan THEN NaN ELSE Num((sd.v * Sqrt365) \div 100)
  ELSE Num(0)

ErrorResult(error, details) == PyDict([error |-> error, details |-> details])

PredictionResult(td, p) ==
  PyDict([predicted_price |-> Num(p.data[1]),
          confidence_score |-> CalculateConfidence(p),
          price_trends |-> AnalyzeTrends(td),
          volatility_index |-> CalculateVolatility(td)])

\* a plausible slip: predict without its try/except
Predict_NoCatch(td, out) ==
  LET f == ExtractFeatures(td)
  IN IF f.raised THEN [raised |-> TRUE, exc |-> f.exc, value |-> PyNone]
     ELSE LET p == Forward(f, out)
          IN IF p.raised THEN [raised |-> TRUE, exc |-> p.exc, value |-> PyNone]
             ELSE [raised |-> FALSE, exc |-> "", value |-> PredictionResult(td, p)]

\* predict: every exception of the body is caught and returned as data
Predict(td, out) ==
  LET f == ExtractFeatures(td)
  IN IF f.raised
     THEN [raised |-> FALSE, exc |-> "",
           value |-> ErrorResult("Price prediction failed", f.exc)]
     ELSE LET p == Forward(f, out)
          IN IF p.raised
             THEN [raised |-> FALSE, exc |-> "",
                   value |-> ErrorResult("Price prediction failed", p.exc)]
             ELSE [raised |-> FALSE, exc |-> "", value |-> PredictionResult(td, p)]

\* ------------------------------------------------------ request and data
\* the chain ids the API advertises (get_supported_chains)
ChainTypes == {"solana", "ethereum", "cosmos", "polkadot"}

\* clients.get(request.chain_type): a plausible slip falls back to a default client
ClientsGet_Default(chain) ==
  IF chain \in {"solana", "ethereum", "cosmos"} THEN chain ELSE "ethereum"

\* clients.get(request.chain_type) over the dict built in analyze_token
ClientsGet(chain) ==
  IF chain \in {"solana", "ethereum", "cosmos"} THEN chain ELSE "None"

Ramp(first, step, n) == [i \in 1..n |-> first + step * (i - 1)]

PriceValues == (-1)..MaxPrice

SeriesLengths == (0..MaxLen) \cup {TrendLookback, WindowSize, WindowSize + 1}

ShortHistories == UNION {[1..n -> PriceValues] : n \in 0..MaxLen}

LongHistories ==
  UNION {{Ramp(1, 1, n), Ramp(n, -1, n), Ramp(3, 0, n)} :
            n \in {TrendLookback, TrendLookback + 1, WindowSize, WindowSize + 1}}
    \cup {Ramp(10, 1, 5)}

PriceHistories == ShortHistories \cup LongHistories

VolumeHistories == {Ramp(10, 1, n) : n \in SeriesLengths}

LiquiditySeries == {Ramp(100, 0, n) : n \in SeriesLengths}

\* the records a chain client may hand back
TokenDataRecords ==
  [metadata : {PyDict(<<>>)}, price_history : PriceHistories,
   volume_history : VolumeHistories, liquidity_data : LiquiditySeries]

NoRecord ==
  [metadata |-> PyNone, price_history |-> <<>>, volume_history |-> <<>>,
   liquidity_data |-> <<>>]

NoFeatures == [raised |-> FALSE, exc |-> "", shape |-> <<>>, data |-> <<>>]

NoOutcome == [kind |-> "none", status |-> 0, detail |-> "", body |-> PyNone]

\* what risk_model.evaluate may return: a result mapping or an ErrorResult
RiskOutcomes ==
  {PyDict([risk_level |-> "low"]), ErrorResult("Risk assessment failed", "Exception")}

\* what behavior_model.analyze may return: recommendations or an ErrorResult
BehaviorOutcomes ==
  {PyList(<<"Hold">>), ErrorResult("Behavioral analysis failed", "Exception")}

IsErrorResult(x) == x.type = "dict" /\ DOMAIN x.value = {"error", "details"}

\* the order of the awaits inside the dict literal, swapped
NextStage_Swapped(stage) ==
  CASE stage = "price" -> "behavior"
    [] stage = "behavior" -> "risk"
    [] OTHER -> "stamp"

\* the order of the awaits inside the dict literal of analyze_token
NextStage(stage) ==
  CASE stage = "price" -> "risk"
    [] stage = "risk" -> "behavior"
    [] OTHER -> "stamp"

\* a plausible slip: a failed retrieval is swallowed and the analysis goes on
HandlerTarget_Continue(origin) == IF origin = "get_token_data" THEN "models" ELSE "except"

\* every exception raised inside the try block lands in `except Exception`
HandlerTarget(origin) == "except"

\* pydantic validation of TokenAnalysisResponse(**analysis_results)
ValidResponse(meta, mp, ra, rec, ts) ==
  /\ meta.type = "dict"
  /\ mp.type = "dict"
  /\ ra.type = "dict"
  /\ rec.type = "list"
  /\ ts # 0

\* ------------------------------------------------------------------- Init
Init ==
  /\ chain_type \in ChainTypes
  /\ pc = "clients"
  /\ pending = "none"
  /\ calls = <<>>
  /\ returns = <<>>
  /\ fetched = "no"
  /\ token_data = NoRecord
  /\ lstm_out = 0
  /\ features = NoFeatures
  /\ market_performance = PyNone
  /\ risk_assessment = PyNone
  /\ recommendations = PyNone
  /\ timestamp = 0
  /\ now = 1
  /\ exc = NoException
  /\ outcome = NoOutcome
  /\ price_trends = <<>>
  /\ volatility_index = Num(0)

unitVars == <<price_trends, volatility_index>>

resultVars == <<market_performance, risk_assessment, recommendations, timestamp>>

\* --------------------------------------------------------- analyze_token
CreateClients ==
  /\ pc = "clients"
  /\ pc' = "lookup"
  /\ now' = now + 1
  /\ UNCHANGED <<chain_type, pending, calls, returns, fetched, token_data, lstm_out,
                 features, resultVars, exc, outcome, unitVars>>

\* `raise HTTPException(status_code=400, message=...)`: the exception is the
\* 400 the line names, or the TypeError its unknown keyword produces
RejectUnsupported ==
  /\ pc = "lookup"
  /\ ClientsGet(chain_type) = "None"
  /\ \E e \in {Raise("HTTPException", "chain_check", 400), Raise("TypeError", "chain_check", 0)} :
        exc' = e
  /\ pc' = HandlerTarget("chain_check")
  /\ now' = now + 1
  /\ UNCHANGED <<chain_type, pending, calls, returns, fetched, token_data, lstm_out,
                 features, resultVars, outcome, unitVars>>

SelectClient ==
  /\ pc = "lookup"
  /\ ClientsGet(chain_type) # "None"
  /\ pc' = "fetch"
  /\ now' = now + 1
  /\ UNCHANGED <<chain_type, pending, calls, returns, fetched, token_data, lstm_out,
                 features, resultVars, exc, outcome, unitVars>>

CallGetTokenData ==
  /\ pc = "fetch"
  /\ pending = "none"
  /\ calls' = Append(calls, "get_token_data")
  /\ pending' = "get_token_data"
  /\ now' = now + 1
  /\ UNCHANGED <<chain_type, pc, returns, fetched, token_data, lstm_out,
                 features, resultVars, exc, outcome, unitVars>>

GetTokenDataReturn ==
  /\ pending = "get_token_data"
  /\ \E td \in TokenDataRecords : token_data' = td
  /\ fetched' = "ok"
  /\ returns' = Append(returns, "get_token_data")
  /\ pending' = "none"
  /\ pc' = "models"
  /\ now' = now + 1
  /\ UNCHANGED <<chain_type, calls, lstm_out, features, resultVars, exc, outcome, unitVars>>

GetTokenDataRaise ==
  /\ pending = "get_token_data"
  /\ fetched' = "failed"
  /\ exc' = Raise("Exception", "get_token_data", 0)
  /\ returns' = Append(returns, "get_token_data")
  /\ pending' = "none"
  /\ pc' = HandlerTarget("get_token_data")
  /\ now' = now + 1
  /\ UNCHANGED <<chain_type, calls, token_data, lstm_out, features, resultVars, outcome,
                 unitVars>>

\* PricePredictionModel() draws fresh random LSTM weights; lstm_out is the
\* scalar those weights would emit
ConstructModels ==
  /\ pc = "models"
  /\ \E o \in (-MaxOut)..MaxOut : lstm_out' = o
  /\ pc' = "price"
  /\ now' = now + 1
  /\ UNCHANGED <<chain_type, pending, calls, returns, fetched, token_data,
                 features, resultVars, exc, outcome, unitVars>>

CallPredict ==
  /\ pc = "price"
  /\ pending = "none"
  /\ calls' = Append(calls, "predict")
  /\ pending' = "predict"
  /\ now' = now + 1
  /\ UNCHANGED <<chain_type, pc, returns, fetched, token_data, lstm_out,
                 features, resultVars, exc, outcome, unitVars>>

ReturnPredict ==
  /\ pending = "predict"
  /\ features' = ExtractFeatures(token_data)
  /\ LET r == Predict(token_data, lstm_out)
     IN IF r.raised
        THEN /\ exc' = Raise(r.exc, "predict", 0)
             /\ pc' = HandlerTarget("predict")
             /\ UNCHANGED market_performance
        ELSE /\ market_performance' = r.value
             /\ pc' = NextStage("price")
             /\ UNCHANGED exc
  /\ returns' = Append(returns, "predict")
  /\ pending' = "none"
  /\ now' = now + 1
  /\ UNCHANGED <<chain_type, calls, fetched, token_data, lstm_out, risk_assessment,
                 recommendations, timestamp, outcome, unitVars>>

CallEvaluate ==
  /\ pc = "risk"
  /\ pending = "none"
  /\ calls' = Append(calls, "evaluate")
  /\ pending' = "evaluate"
  /\ now' = now + 1
  /\ UNCHANGED <<chain_type, pc, returns, fetched, token_data, lstm_out,
                 features, resultVars, exc, outcome, unitVars>>

ReturnEvaluate ==
  /\ pending = "evaluate"
  /\ \E r \in RiskOutcomes : risk_assessment' = r
  /\ returns' = Append(returns, "evaluate")
  /\ pending' = "none"
  /\ pc' = NextStage("risk")
  /\ now' = now + 1
  /\ UNCHANGED <<chain_type, calls, fetched, token_data, lstm_out, features,
                 market_performance, recommendations, timestamp, exc, outcome, unitVars>>

CallAnalyze ==
  /\ pc = "behavior"
  /\ pending = "none"
  /\ calls' = Append(calls, "analyze")
  /\ pending' = "analyze"
  /\ now' = now + 1
  /\ UNCHANGED <<chain_type, pc, returns, fetched, token_data, lstm_out,
                 features, resultVars, exc, outcome, unitVars>>

ReturnAnalyze ==
  /\ pending = "analyze"
  /\ \E r \in BehaviorOutcomes : recommendations' = r
  /\ returns' = Append(returns, "analyze")
  /\ pending' = "none"
  /\ pc' = NextStage("behavior")
  /\ now' = now + 1
  /\ UNCHANGED <<chain_type, calls, fetched, token_data, lstm_out, features,
                 market_performance, risk_assessment, timestamp, exc, outcome, unitVars>>

\* "timestamp": datetime.now()
Stamp ==
  /\ pc = "stamp"
  /\ timestamp' = now
  /\ pc' = "build"
  /\ now' = now + 1
  /\ UNCHANGED <<chain_type, pending, calls, returns, fetched, token_data, lstm_out,
                 features, market_performance, risk_assessment, recommendations,
                 exc, outcome, unitVars>>

\* return TokenAnalysisResponse(**analysis_results)
BuildResponse ==
  /\ pc = "build"
  /\ IF ValidResponse(token_data.metadata, market_performance, risk_assessment,
                      recommendations, timestamp)
     THEN /\ outcome' = [kind |-> "response", status |-> 200, detail |-> "",
                         body |-> PyDict([token_metadata |-> token_data.metadata,
                                          market_performance |-> market_performance,
                                          risk_assessment |-> risk_assessment,
                                          recommendations |-> recommendations,
                                          timestamp |-> timestamp])]
          /\ pc' = "done"
          /\ UNCHANGED exc
     ELSE /\ exc' = Raise("ValidationError", "response", 0)
          /\ pc' = HandlerTarget("response")
          /\ UNCHANGED outcome
  /\ now' = now + 1
  /\ UNCHANGED <<chain_type, pending, calls, returns, fetched, token_data, lstm_out,
                 features, resultVars, unitVars>>

\* except Exception as e: raise HTTPException(status_code=500, detail=str(e))
ExceptHandler ==
  /\ pc = "except"
  /\ outcome' = [kind |-> "http_error", status |-> 500, detail |-> exc.type,
                 body |-> PyNone]
  /\ pc' = "done"
  /\ now' = now + 1
  /\ UNCHANGED <<chain_type, pending, calls, returns, fetched, token_data, lstm_out,
                 features, resultVars, exc, unitVars>>

Next ==
  \/ CreateClients
  \/ RejectUnsupported
  \/ SelectClient
  \/ CallGetTokenData
  \/ GetTokenDataReturn
  \/ GetTokenDataRaise
  \/ ConstructModels
  \/ CallPredict
  \/ ReturnPredict
  \/ CallEvaluate
  \/ ReturnEvaluate
  \/ CallAnalyze
  \/ ReturnAnalyze
  \/ Stamp
  \/ BuildResponse
  \/ ExceptHandler

Spec == Init /\ [][Next]_vars

\* ------------------------------------- the methods applied one at a time
FnInit ==
  /\ chain_type = "ethereum"
  /\ pc = "unit"
  /\ pending = "none"
  /\ calls = <<>>
  /\ returns = <<>>
  /\ fetched = "ok"
  /\ token_data \in TokenDataRecords
  /\ lstm_out = 0
  /\ features = NoFeatures
  /\ market_performance = PyNone
  /\ risk_assessment = PyNone
  /\ recommendations = PyNone
  /\ timestamp = 0
  /\ now = 1
  /\ exc = NoException
  /\ outcome = NoOutcome
  /\ price_trends = <<>>
  /\ volatility_index = Num(0)

fnFrame == <<chain_type, pending, calls, returns, fetched, token_data, lstm_out,
             resultVars, now, exc, outcome>>

UnitExtractFeatures ==
  /\ pc = "unit"
  /\ features' = ExtractFeatures(token_data)
  /\ pc' = "unit_features"
  /\ UNCHANGED <<fnFrame, unitVars>>

UnitAnalyzeTrends ==
  /\ pc = "unit"
  /\ price_trends' = AnalyzeTrends(token_data)
  /\ pc' = "unit_trends"
  /\ UNCHANGED <<fnFrame, features, volatility_index>>

UnitCalculateVolatility ==
  /\ pc = "unit"
  /\ volatility_index' = CalculateVolatility(token_data)
  /\ pc' = "unit_volatility"
  /\ UNCHANGED <<fnFrame, features, price_trends>>

FnNext ==
  \/ UnitExtractFeatures
  \/ UnitAnalyzeTrends
  \/ UnitCalculateVolatility

SpecFn == FnInit /\ [][FnNext]_vars

\* ================================================================ claims
InSeq(x, s) == \E i \in 1..Len(s) : s[i] = x

Count(x, s) == Cardinality({i \in 1..Len(s) : s[i] = x})

ActiveChains == {"solana", "ethereum", "cosmos"}

PredictionFields == {"predicted_price", "confidence_score", "price_trends", "volatility_index"}

ErrorFields == {"error", "details"}

AwaitOrder == <<"get_token_data", "predict", "evaluate", "analyze">>

AnyAnalysisFailed ==
  \/ IsErrorResult(market_performance)
  \/ IsErrorResult(risk_assessment)
  \/ IsErrorResult(recommendations)

FailedCount ==
  Cardinality({i \in 1..3 :
     IsErrorResult(<<market_performance, risk_assessment, recommendations>>[i])})

\* C1: once the token data was retrieved and the request has ended, a failed
\* analysis never coincides with a failed request, and when exactly one
\* analysis failed the response is assembled from the three sections as they
\* were returned, with the timestamp set.
C1_PartialFailureContained ==
  (pc = "done" /\ fetched = "ok") =>
     /\ AnyAnalysisFailed => outcome.kind = "response"
     /\ FailedCount = 1 =>
          /\ outcome.kind = "response"
          /\ timestamp # 0
          /\ outcome.body.value.market_performance = market_performance
          /\ outcome.body.value.risk_assessment = risk_assessment
          /\ outcome.body.value.recommendations = recommendations

\* C2: for a chain_type outside solana, ethereum, cosmos no call to
\* get_token_data, predict, evaluate or analyze is ever made, and the request
\* ends as a failure.
C2_UnsupportedRejectedBeforeWork ==
  chain_type \notin ActiveChains =>
     /\ calls = <<>>
     /\ pending = "none"
     /\ fetched = "no"
     /\ pc = "done" => outcome.kind = "http_error"

C2_Witness ==
  /\ pc = "done"
  /\ chain_type = "polkadot"
  /\ outcome.kind = "http_error"
  /\ calls = <<>>

\* C3: the request for an unsupported chain ends with status 400, never with
\* the status 500 of a pipeline failure.
C3_ValidationFailureDistinguishable ==
  (pc = "done" /\ chain_type \notin ActiveChains) =>
     /\ outcome.kind = "http_error"
     /\ outcome.status = 400

\* C4: once predict has returned, no exception of predict has escaped and
\* market_performance is a mapping with exactly the four prediction fields or
\* exactly the fields error and details.
C4_PredictTotal ==
  InSeq("predict", returns) =>
     /\ exc.origin # "predict"
     /\ market_performance.type = "dict"
     /\ DOMAIN market_performance.value \in {PredictionFields, ErrorFields}

C4_Witness ==
  /\ InSeq("predict", returns)
  /\ Len(token_data.price_history) # Len(token_data.volume_history)
  /\ \E i \in 1..Len(token_data.price_history) : token_data.price_history[i] <= 0
  /\ DOMAIN market_performance.value = ErrorFields

ScenarioRecord ==
  [metadata |-> PyDict(<<>>), price_history |-> Ramp(10, 1, 5),
   volume_history |-> Ramp(10, 1, 5), liquidity_data |-> Ramp(100, 0, 5)]

\* C5: for the record with price_history 1.0..1.4 (in tenths), volume_history
\* 10..14 and liquidity 100 x 5, predict returns a PredictionResult with
\* price_trends = ["Upward Trend"], volatility_index > 0 and confidence_score
\* strictly between 0 and 1, and the feature matrix has the feature count the
\* LSTM was constructed with.
C5_ScenarioPredicts ==
  (InSeq("predict", returns) /\ token_data = ScenarioRecord) =>
     /\ ~features.raised
     /\ features.shape[3] = InputSize
     /\ DOMAIN market_performance.value = PredictionFields
     /\ market_performance.value.price_trends = <<"Upward Trend">>
     /\ ~market_performance.value.volatility_index.nan
     /\ market_performance.value.volatility_index.v > 0
     /\ ~market_performance.value.confidence_score.nan
     /\ market_performance.value.confidence_score.v > 0
     /\ market_performance.value.confidence_score.v < 1000

\* C6: _extract_features returns without error a matrix of shape
\* [1, 10, 3] for every record, whatever the lengths of its three series.
C6_FeatureShape ==
  pc = "unit_features" =>
     /\ ~features.raised
     /\ features.shape = <<1, WindowSize, 3>>

TrendLabel(ph) ==
  LET d == SumSeq(NpDiff(LastK(ph, TrendLookback)))
  IN IF d > 0 THEN "Upward Trend"
     ELSE IF d < 0 THEN "Downward Trend" ELSE "Sideways Movement"

\* C7: _analyze_trends returns no label for a price_history of fewer than 2
\* entries and otherwise exactly the one label given by the sign of the mean
\* difference of the last up-to-5 entries.
C7_TrendLabels ==
  pc = "unit_trends" =>
     IF Len(token_data.price_history) < 2
     THEN price_trends = <<>>
     ELSE price_trends = <<TrendLabel(token_data.price_history)>>

TwoPositive(ph) == Len(ph) = 2 /\ ph[1] > 0 /\ ph[2] > 0

\* C8 as stated: 0.0 for fewer than 2 entries, strictly positive and finite
\* for two positive, unequal prices.
C8_Original ==
  pc = "unit_volatility" =>
     /\ Len(token_data.price_history) < 2 => volatility_index = Num(0)
     /\ (TwoPositive(token_data.price_history)
           /\ token_data.price_history[1] # token_data.price_history[2])
          => (~volatility_index.nan /\ volatility_index.v > 0)

\* C8 amended: _calculate_volatility returns 0.0 for every price_history of
\* fewer than 2 entries and also exactly 0.0 for every price_history of two
\* positive prices (the population deviation of a single log-return is zero).
C8_VolatilityOfFewPrices ==
  pc = "unit_volatility" =>
     /\ Len(token_data.price_history) < 2 => volatility_index = Num(0)
     /\ TwoPositive(token_data.price_history) => volatility_index = Num(0)

C8_Witness ==
  /\ pc = "unit_volatility"
  /\ token_data.price_history = <<1, 2>>
  /\ volatility_index = Num(0)

\* C9: after get_token_data failed, it has been called exactly once, none of
\* predict, evaluate, analyze is ever called, no response is produced, and
\* the request ends as one failure.
C9_FetchFailureIsFatal ==
  fetched = "failed" =>
     /\ Count("get_token_data", calls) = 1
     /\ ~InSeq("predict", calls)
     /\ ~InSeq("evaluate", calls)
     /\ ~InSeq("analyze", calls)
     /\ outcome.kind # "response"
     /\ outcome.body.type = "NoneType"
     /\ pc = "done" => outcome.kind = "http_error"

C9_Witness ==
  /\ pc = "done"
  /\ fetched = "failed"
  /\ outcome.kind = "http_error"
  /\ calls = <<"get_token_data">>

\* C10: the calls are made in the order get_token_data, predict, evaluate,
\* analyze, each only after the previous one returned; the timestamp is
\* taken, and a response assembled, only after all three analyses returned.
C10_SequentialAwaits ==
  /\ Len(calls) <= Len(AwaitOrder)
  /\ calls = SubSeq(AwaitOrder, 1, Len(calls))
  /\ Len(returns) <= Len(calls)
  /\ Len(calls) <= Len(returns) + 1
  /\ returns = SubSeq(calls, 1, Len(returns))
  /\ pending # "none" => (Len(calls) = Len(returns) + 1 /\ pending = calls[Len(calls)])
  /\ timestamp # 0 => (returns = AwaitOrder /\ pending = "none")
  /\ outcome.kind = "response" =>
        (returns = AwaitOrder /\ pending = "none" /\ timestamp # 0)

C10_Witness ==
  /\ outcome.kind = "response"
  /\ returns = AwaitOrder
  /\ timestamp # 0

====
